---- MODULE Spec2Model ----
(***************************************************************************)
(* VKExample (main.cpp): device selection and surface configuration,       *)
(* start-up object creation, the frame loop with its fences and the        *)
(* imagesInFlight table, and the deinitialization sequence.                *)
(* The CPU side is the single thread of main(); the GPU side retires the   *)
(* graphics-queue submissions asynchronously.                              *)
(***************************************************************************)
EXTENDS Integers, Sequences, FiniteSets, TLC

VARIABLES
    pc,                  \* position of main()
    debugMode,           \* DEBUG_MODE was defined for this build
    MAX_FRAMES_IN_FLIGHT,\* number of frame slots of this build
    numImages,           \* vkSwapChainImages.size()
    step,                \* index of the next object of CreationOrder / DestructionOrder
    created,             \* objects created so far, in creation order
    failed,              \* objects whose creation call reported a failure
    destroyed,           \* objects destroyed so far, in destruction order
    closeFlag,           \* glfwWindowShouldClose(glfwWindow)
    currentFrame,        \* size_t currentFrame
    imageIndex,          \* uint32_t imageIndex of the running iteration
    acquireFailed,       \* vkAcquireNextImageKHR of the running iteration did not succeed
    waitedFence,         \* the fence the running iteration waited on for its image
    fenceSignaled,       \* inFlightFences[s] is signaled
    imagesInFlight,      \* imagesInFlight[i]: a slot's fence, or VK_NULL_HANDLE
    inFlight,            \* submissions of (slot, image) the GPU has not retired
    iterUpdated,         \* the running iteration wrote its uniform buffer
    uniformWritten,      \* the uniform buffers the running iteration wrote
    iterClaimed,         \* the running iteration stored its fence in imagesInFlight
    iterSubmitted,       \* the running iteration called vkQueueSubmit successfully
    iterPresented        \* the running iteration called vkQueuePresentKHR

\* Device selection and surface configuration (steps 6 and 5 of main()).
VARIABLES
    negPc,               \* position of main() inside device selection and surface configuration
    vkDevices,           \* the physical devices, in enumeration order
    examined,            \* number of devices the selection loop has gone through
    currentDeviceQueueFamilyIndices, \* the indices recorded for the last examined device
    vkPhysicalDevice,    \* the selected device (its position in vkDevices), or VK_NULL_HANDLE
    queueFamilyIndices,  \* the queue-family indices kept for the selected device
    swapChainSupportDetails, \* the swap-chain details kept for the selected device
    depthFormat,         \* the depth format kept for the selected device
    errorMessage,        \* the message written to std::cerr before abort()
    vkDevice,            \* the logical device has been created
    vkSelectedFormat,    \* the selected surface format
    vkSelectedPresendMode, \* the selected present mode
    vkSelectedExtent,    \* the selected swap-chain resolution
    imageCount,          \* the number of images asked of the swap chain
    vkSwapChainCreateInfo \* the sharing of the swap-chain images among the queue families

\* The queues of the device, the semaphores and the presentation engine.
VARIABLES
    imageAvailableSemaphores, \* imageAvailableSemaphores[s]: state of the semaphore of slot s
    renderFinishedSemaphores, \* renderFinishedSemaphores[s]: state of the semaphore of slot s
    imageState,          \* imageState[i]: where image i is between acquisition and display
    rendering,           \* the submissions << slot, image >> whose colour output has begun
    presentQueue         \* the presentation requests << slot, image >> not yet executed

queues == << imageAvailableSemaphores, renderFinishedSemaphores, imageState, rendering,
             presentQueue >>

\* The check of the validation layers of a DEBUG_MODE build.
VARIABLES
    layerPc,                     \* position of main() in the check
    vkAvailableLayers,           \* the layer names the loader reports
    requestedLayer,              \* position of the outer loop in desiredValidationLayers
    availableLayer,              \* position of the inner loop in vkAvailableLayers
    isLayerAvailable,
    validationLayersAvailable

layers == << layerPc, vkAvailableLayers, requestedLayer, availableLayer, isLayerAvailable,
             validationLayersAvailable >>

negotiation == << negPc, vkDevices, examined, currentDeviceQueueFamilyIndices,
                  vkPhysicalDevice, queueFamilyIndices, swapChainSupportDetails,
                  depthFormat, errorMessage, vkDevice, vkSelectedFormat,
                  vkSelectedPresendMode, vkSelectedExtent, imageCount,
                  vkSwapChainCreateInfo >>

vars == << pc, debugMode, MAX_FRAMES_IN_FLIGHT, numImages, step, created, failed,
           destroyed, closeFlag, currentFrame, imageIndex, acquireFailed, waitedFence,
           fenceSignaled, imagesInFlight, inFlight, iterUpdated, uniformWritten,
           iterClaimed,
           iterSubmitted, iterPresented, negotiation, queues, layers >>

\* What no step of the frame loop, of start-up or of deinitialization changes.
config == << debugMode, MAX_FRAMES_IN_FLIGHT, numImages, negotiation, queues, layers >>
startup == << step, created, failed >>
iter == << iterUpdated, uniformWritten, iterClaimed, iterSubmitted, iterPresented >>
sync == << fenceSignaled, imagesInFlight, inFlight >>

----------------------------------------------------------------------------
(* Bounds and program constants *)

\* The value main.cpp gives MAX_FRAMES_IN_FLIGHT.
ShippedFrames == 5

\* A second, smaller number of frame slots, so that the images can outnumber the slots.
ScenarioFrames == 2

\* The largest number of images the swap chain reports with ScenarioFrames slots.
MaxImages == 3

\* The largest number of images the swap chain reports with ShippedFrames slots.
ShippedImages == 2

\* Cap on the number of unretired submissions of one (slot, image) pair.
MaxPending == 2

\* The builds and swap chains explored: << frame slots, swap-chain images >>.
Configurations ==
    ({ScenarioFrames} \X (1 .. MaxImages)) \cup ({ShippedFrames} \X (1 .. ShippedImages))

Slots == 0 .. (MAX_FRAMES_IN_FLIGHT - 1)
Images == 0 .. (numImages - 1)

VK_NULL_HANDLE == -1

\* An imageIndex that is no index of the per-image vectors.
BadIndex == -2

\* imageIndex before the acquisition of an iteration has written it.
NoIndex == -3

----------------------------------------------------------------------------
(* Start-up: the objects in the order main() creates them *)

CreationOrder ==
    << "glfw", "window", "instance", "surface", "debugMessenger", "device",
       "swapChain", "vertexShaderModule", "fragmentShaderModule",
       "descriptorSetLayout", "renderPass", "pipelineLayout", "graphicsPipeline",
       "swapChainImageViews", "depthImage", "depthImageMemory", "depthImageView",
       "swapChainFramebuffers", "vertexBuffer", "vertexBufferMemory",
       "uniformBuffers", "uniformBuffersMemory", "descriptorPool", "descriptorSets",
       "commandPool", "commandBuffers", "imageAvailableSemaphores",
       "renderFinishedSemaphores", "inFlightFences" >>

\* The creation calls whose result main() does not look at.
Unchecked == {"glfw", "window", "debugMessenger"}

\* Objects that exist only in a DEBUG_MODE build.
DebugOnly == {"debugMessenger"}

\* A creation call that cannot succeed because what it needs was not created:
\* glfwCreateWindow without an initialised library, a surface without a window.
MustFail(r) ==
    \/ r = "window" /\ "glfw" \in failed
    \/ r = "surface" /\ "window" \in failed

\* VkFenceCreateInfo.flags of the slot fences: VK_FENCE_CREATE_SIGNALED_BIT.
FenceCreateSignaledMutant == FALSE
FenceCreateSignaled == TRUE

----------------------------------------------------------------------------
(* Physical devices and what they report *)

WINDOW_WIDTH == 800
WINDOW_HEIGHT == 800

\* The largest uint32_t; the largest integer of the model checker stands for it.
UINT32_MAX == 2147483647

\* An empty std::optional< uint32_t >.
Nullopt == -4

\* Longest enumeration of physical devices.
MaxDevices == 3

\* Largest number of queue families of one device.
MaxFamilies == 2

\* Largest number of surface formats and of present modes of one device.
MaxFormats == 2
MaxModes == 2

\* The extents a surface reports lie within this distance of the window size.
ExtentSpread == 1

\* Largest minImageCount a surface reports.
MaxCount == 3

SeqsUpTo(S, n) == UNION {[1 .. k -> S] : k \in 0 .. n}
Range(q) == {q[k] : k \in 1 .. Len(q)}

desiredDeviceExtensions == {"VK_KHR_swapchain"}
ExtensionSets == SUBSET {"VK_KHR_swapchain", "VK_KHR_maintenance1"}

\* A queue family: its graphics flag and whether it can present to the surface.
QueueFamilies == [graphics : BOOLEAN, present : BOOLEAN]

SurfaceFormats == [format : {"B8G8R8A8_SRGB", "B8G8R8A8_UNORM"},
                   colorSpace : {"SRGB_NONLINEAR", "EXTENDED_SRGB_LINEAR"}]

PresentModes == {"IMMEDIATE", "MAILBOX", "FIFO", "FIFO_RELAXED"}

depthFormatCandidates == << "D32_SFLOAT", "D32_SFLOAT_S8_UINT", "D24_UNORM_S8_UINT" >>

\* The formats a device may support as an optimally tiled depth-stencil attachment.
DepthSupports == SUBSET (Range(depthFormatCandidates) \cup {"D16_UNORM"})

ExtentValues == (WINDOW_WIDTH - ExtentSpread) .. (WINDOW_WIDTH + ExtentSpread)

DefaultCapabilities ==
    [currentExtent |-> [width |-> WINDOW_WIDTH, height |-> WINDOW_HEIGHT],
     minImageExtent |-> [width |-> WINDOW_WIDTH, height |-> WINDOW_HEIGHT],
     maxImageExtent |-> [width |-> WINDOW_WIDTH, height |-> WINDOW_HEIGHT],
     minImageCount |-> 2,
     maxImageCount |-> 0]

\* Capabilities that differ in their extents: currentExtent may hold UINT32_MAX,
\* and minImageExtent does not exceed maxImageExtent.
ExtentCapabilities ==
    {c \in [currentExtent : [width : ExtentValues \cup {UINT32_MAX},
                             height : ExtentValues \cup {UINT32_MAX}],
            minImageExtent : [width : ExtentValues, height : ExtentValues],
            maxImageExtent : [width : ExtentValues, height : ExtentValues],
            minImageCount : {DefaultCapabilities.minImageCount},
            maxImageCount : {DefaultCapabilities.maxImageCount}] :
        /\ c.minImageExtent.width <= c.maxImageExtent.width
        /\ c.minImageExtent.height <= c.maxImageExtent.height}

\* Capabilities that differ in their image counts; maxImageCount 0 means no limit.
CountCapabilities ==
    {[DefaultCapabilities EXCEPT !.minImageCount = lo, !.maxImageCount = hi] :
        lo \in 0 .. MaxCount, hi \in 0 .. (MaxCount + 1)}

\* A device that passes every test of the selection loop.
DefaultDevice ==
    [extensions |-> desiredDeviceExtensions,
     queueFamilies |-> << [graphics |-> TRUE, present |-> TRUE] >>,
     formats |-> << [format |-> "B8G8R8A8_SRGB", colorSpace |-> "SRGB_NONLINEAR"] >>,
     presentModes |-> << "FIFO" >>,
     capabilities |-> DefaultCapabilities,
     depthSupport |-> {"D32_SFLOAT"}]

\* Devices that pass every test and differ in what is kept for them.
SuitableDevices ==
    {[DefaultDevice EXCEPT !.queueFamilies = q, !.formats = f, !.depthSupport = z] :
        q \in {DefaultDevice.queueFamilies,
               << [graphics |-> TRUE, present |-> FALSE],
                  [graphics |-> FALSE, present |-> TRUE] >>},
        f \in {DefaultDevice.formats,
               << [format |-> "B8G8R8A8_UNORM", colorSpace |-> "SRGB_NONLINEAR"] >>},
        z \in {DefaultDevice.depthSupport, {"D24_UNORM_S8_UINT"}}}

\* Devices that fail one test of the selection loop each.
UnsuitableDevices ==
    {[DefaultDevice EXCEPT !.extensions = {"VK_KHR_maintenance1"}],
     [DefaultDevice EXCEPT !.queueFamilies = << >>],
     [DefaultDevice EXCEPT !.queueFamilies = << [graphics |-> TRUE, present |-> FALSE] >>],
     [DefaultDevice EXCEPT !.queueFamilies = << [graphics |-> FALSE, present |-> TRUE] >>],
     [DefaultDevice EXCEPT !.formats = << >>],
     [DefaultDevice EXCEPT !.presentModes = << >>],
     [DefaultDevice EXCEPT !.depthSupport = {"D16_UNORM"}]}

\* Single devices that differ from DefaultDevice in one report, taken over all
\* its values.
OneReportDevices ==
    {[DefaultDevice EXCEPT !.extensions = e] : e \in ExtensionSets}
    \cup {[DefaultDevice EXCEPT !.queueFamilies = q] : q \in SeqsUpTo(QueueFamilies, MaxFamilies)}
    \cup {[DefaultDevice EXCEPT !.formats = f] : f \in SeqsUpTo(SurfaceFormats, MaxFormats)}
    \cup {[DefaultDevice EXCEPT !.presentModes = m] : m \in SeqsUpTo(PresentModes, MaxModes)}
    \cup {[DefaultDevice EXCEPT !.capabilities = c] : c \in ExtentCapabilities \cup CountCapabilities}
    \cup {[DefaultDevice EXCEPT !.depthSupport = z] : z \in DepthSupports}

\* The enumerations explored: every list of up to MaxDevices devices that pass or
\* fail the tests, and every single device of OneReportDevices.
DeviceLists ==
    SeqsUpTo(SuitableDevices \cup UnsuitableDevices, MaxDevices)
    \cup {<< d >> : d \in OneReportDevices}

\* The state of the locals of steps 6 and 5 before they are assigned.
NoQueueFamilyIndices == [graphicsFamily |-> Nullopt, presentFamily |-> Nullopt]
NoCapabilities ==
    [currentExtent |-> [width |-> 0, height |-> 0],
     minImageExtent |-> [width |-> 0, height |-> 0],
     maxImageExtent |-> [width |-> 0, height |-> 0],
     minImageCount |-> 0,
     maxImageCount |-> 0]
NoDetails == [capabilities |-> NoCapabilities, formats |-> << >>, presentModes |-> << >>]

NoSharing ==
    [imageSharingMode |-> "UNDEFINED", queueFamilyIndexCount |-> 0,
     pQueueFamilyIndices |-> << >>]

NegotiationReset ==
    /\ examined = 0
    /\ currentDeviceQueueFamilyIndices = NoQueueFamilyIndices
    /\ vkPhysicalDevice = VK_NULL_HANDLE
    /\ queueFamilyIndices = NoQueueFamilyIndices
    /\ swapChainSupportDetails = NoDetails
    /\ depthFormat = "UNDEFINED"
    /\ errorMessage = ""
    /\ vkDevice = FALSE
    /\ vkSelectedFormat = [format |-> "UNDEFINED", colorSpace |-> "UNDEFINED"]
    /\ vkSelectedPresendMode = "UNDEFINED"
    /\ vkSelectedExtent = [width |-> 0, height |-> 0]
    /\ imageCount = 0
    /\ vkSwapChainCreateInfo = NoSharing

\* An image-available semaphore that no acquisition has asked a signal of.
Unsignaled == [state |-> "unsignaled", image |-> NoIndex]

\* Semaphores are created unsignaled and the presentation engine owns every image.
\* The variables of the validation-layer check when the check is over.
LayersReset ==
    /\ layerPc = "passed"
    /\ vkAvailableLayers = << >>
    /\ requestedLayer = 1
    /\ availableLayer = 1
    /\ isLayerAvailable = FALSE
    /\ validationLayersAvailable = TRUE

QueuesInit ==
    /\ imageAvailableSemaphores = [s \in Slots |-> Unsignaled]
    /\ renderFinishedSemaphores = [s \in Slots |-> "unsignaled"]
    /\ imageState = [i \in Images |-> "free"]
    /\ rendering = {}
    /\ presentQueue = << >>

----------------------------------------------------------------------------
Init ==
    /\ pc = "startup"
    /\ debugMode \in BOOLEAN
    /\ \E c \in Configurations :
        /\ MAX_FRAMES_IN_FLIGHT = c[1]
        /\ numImages = c[2]
    /\ step = 1
    /\ created = << >>
    /\ failed = {}
    /\ destroyed = << >>
    /\ closeFlag = FALSE
    /\ currentFrame = 0
    /\ imageIndex = NoIndex
    /\ acquireFailed = FALSE
    /\ waitedFence = VK_NULL_HANDLE
    /\ fenceSignaled = [s \in Slots |-> FALSE]
    /\ imagesInFlight = [i \in Images |-> VK_NULL_HANDLE]
    /\ inFlight = [p \in Slots \X Images |-> 0]
    /\ iterUpdated = FALSE
    /\ uniformWritten = {}
    /\ iterClaimed = FALSE
    /\ iterSubmitted = FALSE
    /\ iterPresented = FALSE
    /\ negPc = "passed"
    /\ vkDevices = << DefaultDevice >>
    /\ NegotiationReset
    /\ QueuesInit
    /\ LayersReset

\* After the last creation main() enters the loop.
AfterCreate(n) == IF n > Len(CreationOrder) THEN "loop" ELSE "startup"

\* The fences start in the state their create info asks for.
FencesAfterCreate(r) ==
    IF r = "inFlightFences" THEN [s \in Slots |-> FenceCreateSignaled] ELSE fenceSignaled

\* A DEBUG_MODE-only object is skipped by the preprocessor in a release build.
SkipCreate ==
    /\ pc = "startup"
    /\ CreationOrder[step] \in DebugOnly
    /\ ~debugMode
    /\ step' = step + 1
    /\ pc' = AfterCreate(step + 1)
    /\ UNCHANGED << config, created, failed, destroyed, closeFlag, currentFrame,
                    imageIndex, acquireFailed, waitedFence, sync, iter >>

\* The creation call succeeds.
CreateOk ==
    /\ pc = "startup"
    /\ LET r == CreationOrder[step] IN
        /\ r \in DebugOnly => debugMode
        /\ ~MustFail(r)
        /\ created' = Append(created, r)
        /\ fenceSignaled' = FencesAfterCreate(r)
    /\ step' = step + 1
    /\ pc' = AfterCreate(step + 1)
    /\ UNCHANGED << config, failed, destroyed, closeFlag, currentFrame, imageIndex,
                    acquireFailed, waitedFence, imagesInFlight, inFlight, iter >>

\* The creation call fails: abort() or an uncaught exception where the result
\* is checked, the next statement where it is not.
CreateFail ==
    /\ pc = "startup"
    /\ LET r == CreationOrder[step] IN
        /\ r \in DebugOnly => debugMode
        /\ failed' = failed \cup {r}
        /\ IF r \in Unchecked
             THEN /\ step' = step + 1
                  /\ pc' = AfterCreate(step + 1)
             ELSE /\ step' = step
                  /\ pc' = "aborted"
    /\ UNCHANGED << config, created, destroyed, closeFlag, currentFrame, imageIndex,
                    acquireFailed, waitedFence, sync, iter >>

----------------------------------------------------------------------------
(* The GPU *)

RECURSIVE SumOver(_, _)
SumOver(f, S) ==
    IF S = {} THEN 0
    ELSE LET x == CHOOSE y \in S : TRUE IN f[x] + SumOver(f, S \ {x})

\* Submissions made with the fence of slot s that the GPU has not retired.
SlotOutstanding(s) == SumOver(inFlight, {s} \X Images)

\* Submissions of the command buffer of image i that the GPU has not retired.
TargetOutstanding(i) == SumOver(inFlight, Slots \X {i})

\* All graphics-queue submissions the GPU has not retired.
Outstanding == SumOver(inFlight, Slots \X Images)

Running == pc \notin {"startup", "aborted", "crashed", "done"}

\* The GPU finishes one submission and signals the fence it was submitted with.
GpuComplete ==
    /\ Running
    /\ \E s \in Slots, i \in Images :
        /\ inFlight[<<s, i>>] > 0
        /\ inFlight' = [inFlight EXCEPT ![<<s, i>>] = @ - 1]
        /\ fenceSignaled' = [fenceSignaled EXCEPT ![s] = TRUE]
    /\ UNCHANGED << pc, config, startup, destroyed, closeFlag, currentFrame, imageIndex,
                    acquireFailed, waitedFence, imagesInFlight, iter >>

----------------------------------------------------------------------------
(* The main loop *)

\* while(!glfwWindowShouldClose(glfwWindow))
LoopConditionMutant == TRUE
LoopCondition == ~closeFlag

\* The loop condition: another iteration, or the deinitialization.
LoopCheck ==
    /\ pc = "loop"
    /\ IF LoopCondition
         THEN /\ pc' = "pump"
              /\ imageIndex' = NoIndex
              /\ acquireFailed' = FALSE
              /\ waitedFence' = VK_NULL_HANDLE
              /\ iterUpdated' = FALSE
              /\ uniformWritten' = {}
              /\ iterClaimed' = FALSE
              /\ iterSubmitted' = FALSE
              /\ iterPresented' = FALSE
         ELSE /\ pc' = "waitidle"
              /\ UNCHANGED << imageIndex, acquireFailed, waitedFence, iter >>
    /\ UNCHANGED << config, startup, destroyed, closeFlag, currentFrame, sync >>

\* glfwPollEvents(): a close request that has arrived sets the window's flag.
Pump ==
    /\ pc = "pump"
    /\ closeFlag' \in {closeFlag, TRUE}
    /\ pc' = "throttle"
    /\ UNCHANGED << config, startup, destroyed, currentFrame, imageIndex, acquireFailed,
                    waitedFence, sync, iter >>

\* vkWaitForFences(inFlightFences[currentFrame]) returns.
ThrottleReadyNoWait == TRUE
ThrottleReadyFirstFence == fenceSignaled[0]
ThrottleReady == fenceSignaled[currentFrame]

\* The wait followed at once by the reset of the fence.
ThrottleAndReset ==
    /\ pc = "throttle"
    /\ ThrottleReady
    /\ fenceSignaled' = [fenceSignaled EXCEPT ![currentFrame] = FALSE]
    /\ pc' = "acquire"
    /\ UNCHANGED << config, startup, destroyed, closeFlag, currentFrame, imageIndex,
                    acquireFailed, waitedFence, imagesInFlight, inFlight, iter >>

Throttle ==
    /\ pc = "throttle"
    /\ ThrottleReady
    /\ pc' = "acquire"
    /\ UNCHANGED << config, startup, destroyed, closeFlag, currentFrame, imageIndex,
                    acquireFailed, waitedFence, sync, iter >>

\* vkAcquireNextImageKHR succeeds and writes the index of some image.
AcquireOk ==
    /\ pc = "acquire"
    /\ imageIndex' \in Images
    /\ acquireFailed' = FALSE
    /\ pc' = "update"
    /\ UNCHANGED << config, startup, destroyed, closeFlag, currentFrame, waitedFence,
                    sync, iter >>

\* vkAcquireNextImageKHR fails: its result is dropped and imageIndex keeps the
\* value of its uninitialised storage, an image's index or any other number.
AcquireFail ==
    /\ pc = "acquire"
    /\ imageIndex' \in Images \cup {BadIndex}
    /\ acquireFailed' = TRUE
    /\ pc' = "update"
    /\ UNCHANGED << config, startup, destroyed, closeFlag, currentFrame, waitedFence,
                    sync, iter >>

\* The index of the uniform buffer the iteration writes:
\* vkMapMemory(vkDevice, uniformBuffersMemory[imageIndex], ...)
UpdatedBufferOfSlot == currentFrame
UpdatedBuffer == imageIndex

\* vkMapMemory, memcpy, vkUnmapMemory on uniformBuffersMemory[imageIndex]; an
\* index outside the vector ends the process.
Update ==
    /\ pc = "update"
    /\ IF imageIndex \in Images
         THEN /\ iterUpdated' = TRUE
              /\ uniformWritten' = uniformWritten \cup {UpdatedBuffer}
              /\ pc' = "crosswait"
         ELSE /\ iterUpdated' = iterUpdated
              /\ uniformWritten' = uniformWritten
              /\ pc' = "crashed"
    /\ UNCHANGED << config, startup, destroyed, closeFlag, currentFrame, imageIndex,
                    acquireFailed, waitedFence, sync, iterClaimed, iterSubmitted,
                    iterPresented >>

\* if (imagesInFlight[imageIndex] != VK_NULL_HANDLE)
CrossWaitNeededNever == FALSE
CrossWaitNeeded == imagesInFlight[imageIndex] # VK_NULL_HANDLE

\* A wait on the fence of the running slot in place of the recorded one.
CrossWaitOnOwnFence ==
    /\ pc = "crosswait"
    /\ IF CrossWaitNeeded
         THEN /\ fenceSignaled[currentFrame]
              /\ waitedFence' = currentFrame
         ELSE waitedFence' = VK_NULL_HANDLE
    /\ pc' = "claim"
    /\ UNCHANGED << config, startup, destroyed, closeFlag, currentFrame, imageIndex,
                    acquireFailed, sync, iter >>

\* The wait on imagesInFlight[imageIndex], when there is one.
CrossWait ==
    /\ pc = "crosswait"
    /\ IF CrossWaitNeeded
         THEN /\ fenceSignaled[imagesInFlight[imageIndex]]
              /\ waitedFence' = imagesInFlight[imageIndex]
         ELSE waitedFence' = VK_NULL_HANDLE
    /\ pc' = "claim"
    /\ UNCHANGED << config, startup, destroyed, closeFlag, currentFrame, imageIndex,
                    acquireFailed, sync, iter >>

\* The fence stored at the index of the slot in place of the index of the image.
ClaimAtSlotIndex ==
    /\ pc = "claim"
    /\ imagesInFlight' = [imagesInFlight EXCEPT ![currentFrame % numImages] = currentFrame]
    /\ iterClaimed' = TRUE
    /\ pc' = "reset"
    /\ UNCHANGED << config, startup, destroyed, closeFlag, currentFrame, imageIndex,
                    acquireFailed, waitedFence, fenceSignaled, inFlight, iterUpdated,
                    uniformWritten,
                    iterSubmitted, iterPresented >>

\* imagesInFlight[imageIndex] = inFlightFences[currentFrame]
Claim ==
    /\ pc = "claim"
    /\ imagesInFlight' = [imagesInFlight EXCEPT ![imageIndex] = currentFrame]
    /\ iterClaimed' = TRUE
    /\ pc' = "reset"
    /\ UNCHANGED << config, startup, destroyed, closeFlag, currentFrame, imageIndex,
                    acquireFailed, waitedFence, fenceSignaled, inFlight, iterUpdated,
                    uniformWritten,
                    iterSubmitted, iterPresented >>

\* vkResetFences(inFlightFences[currentFrame])
ResetFence ==
    /\ pc = "reset"
    /\ fenceSignaled' = [fenceSignaled EXCEPT ![currentFrame] = FALSE]
    /\ pc' = "submit"
    /\ UNCHANGED << config, startup, destroyed, closeFlag, currentFrame, imageIndex,
                    acquireFailed, waitedFence, imagesInFlight, inFlight, iter >>

\* vkQueueSubmit of commandBuffers[imageIndex] with inFlightFences[currentFrame].
SubmitOk ==
    /\ pc = "submit"
    /\ inFlight[<<currentFrame, imageIndex>>] < MaxPending
    /\ inFlight' = [inFlight EXCEPT ![<<currentFrame, imageIndex>>] = @ + 1]
    /\ iterSubmitted' = TRUE
    /\ pc' = "present"
    /\ UNCHANGED << config, startup, destroyed, closeFlag, currentFrame, imageIndex,
                    acquireFailed, waitedFence, fenceSignaled, imagesInFlight,
                    iterUpdated, uniformWritten, iterClaimed, iterPresented >>

\* vkQueueSubmit does not return VK_SUCCESS: abort().
SubmitFail ==
    /\ pc = "submit"
    /\ pc' = "aborted"
    /\ UNCHANGED << config, startup, destroyed, closeFlag, currentFrame, imageIndex,
                    acquireFailed, waitedFence, sync, iter >>

\* vkQueuePresentKHR(vkPresentQueue, &presentInfo); its result is dropped.
Present ==
    /\ pc = "present"
    /\ iterPresented' = TRUE
    /\ pc' = "advance"
    /\ UNCHANGED << config, startup, destroyed, closeFlag, currentFrame, imageIndex,
                    acquireFailed, waitedFence, sync, iterUpdated, uniformWritten, iterClaimed,
                    iterSubmitted >>

\* The next slot taken from the acquired image in place of the running slot.
AdvanceFromImageIndex ==
    /\ pc = "advance"
    /\ currentFrame' = (imageIndex + 1) % MAX_FRAMES_IN_FLIGHT
    /\ pc' = "loop"
    /\ UNCHANGED << config, startup, destroyed, closeFlag, imageIndex, acquireFailed,
                    waitedFence, sync, iter >>

\* currentFrame = (currentFrame + 1) % MAX_FRAMES_IN_FLIGHT
Advance ==
    /\ pc = "advance"
    /\ currentFrame' = (currentFrame + 1) % MAX_FRAMES_IN_FLIGHT
    /\ pc' = "loop"
    /\ UNCHANGED << config, startup, destroyed, closeFlag, imageIndex, acquireFailed,
                    waitedFence, sync, iter >>

----------------------------------------------------------------------------
(* Deinitialization *)

\* The destruction calls in the order main() makes them.
DestructionOrder ==
    << "inFlightFences", "renderFinishedSemaphores", "imageAvailableSemaphores",
       "uniformBuffers", "uniformBuffersMemory", "descriptorPool", "vertexBuffer",
       "vertexBufferMemory", "commandPool", "swapChainFramebuffers", "depthImageView",
       "depthImage", "depthImageMemory", "graphicsPipeline", "pipelineLayout",
       "renderPass", "fragmentShaderModule", "vertexShaderModule",
       "swapChainImageViews", "swapChain", "descriptorSetLayout", "device",
       "debugMessenger", "surface", "instance", "window", "glfw" >>

\* vkDeviceWaitIdle(vkDevice) returns.
DeviceIdleNoWait == TRUE
DeviceIdle == Outstanding = 0

WaitIdle ==
    /\ pc = "waitidle"
    /\ DeviceIdle
    /\ pc' = "destroy"
    /\ step' = 1
    /\ UNCHANGED << config, created, failed, destroyed, closeFlag, currentFrame,
                    imageIndex, acquireFailed, waitedFence, sync, iter >>

AfterDestroy(n) == IF n > Len(DestructionOrder) THEN "done" ELSE "destroy"

\* One destruction call; the DEBUG_MODE-only one is compiled out of a release build.
Destroy ==
    /\ pc = "destroy"
    /\ LET r == DestructionOrder[step] IN
        destroyed' = IF r \in DebugOnly /\ ~debugMode THEN destroyed
                     ELSE Append(destroyed, r)
    /\ step' = step + 1
    /\ pc' = AfterDestroy(step + 1)
    /\ UNCHANGED << config, created, failed, closeFlag, currentFrame, imageIndex,
                    acquireFailed, waitedFence, sync, iter >>

----------------------------------------------------------------------------

Next ==
    \/ SkipCreate
    \/ CreateOk
    \/ CreateFail
    \/ GpuComplete
    \/ LoopCheck
    \/ Pump
    \/ Throttle
    \/ AcquireOk
    \/ AcquireFail
    \/ Update
    \/ CrossWait
    \/ Claim
    \/ ResetFence
    \/ SubmitOk
    \/ SubmitFail
    \/ Present
    \/ Advance
    \/ WaitIdle
    \/ Destroy

Spec == Init /\ [][Next]_vars

\* The steps of main(): a statement that can run does run.
MainStep ==
    \/ SkipCreate
    \/ CreateOk
    \/ CreateFail
    \/ LoopCheck
    \/ Pump
    \/ Throttle
    \/ AcquireOk
    \/ AcquireFail
    \/ Update
    \/ CrossWait
    \/ Claim
    \/ ResetFence
    \/ SubmitOk
    \/ SubmitFail
    \/ Present
    \/ Advance
    \/ WaitIdle
    \/ Destroy

\* The program with a main thread that keeps running, a GPU that completes
\* every submission and acquisitions that return.
LiveSpec == Spec /\ WF_vars(MainStep) /\ WF_vars(GpuComplete)

----------------------------------------------------------------------------
(* Device selection (step 6 of main()) *)

\* The names left in requiredExtensions after erasing the available ones.
requiredExtensions(availableExtensions) == desiredDeviceExtensions \ availableExtensions

\* What an assignment of the family index i leaves in an index of QueueFamilyIndices.
RecordIndexKeepFirst(recorded, i) == IF recorded = Nullopt THEN i ELSE recorded
RecordIndex(recorded, i) == i

\* The loop over the queue families of one device, from family i on.
RECURSIVE ScanQueueFamilies(_, _, _)
ScanQueueFamilies(vkQueueFamilies, i, indices) ==
    IF i >= Len(vkQueueFamilies) THEN indices
    ELSE LET queueFamily == vkQueueFamilies[i + 1]
             afterGraphics ==
                 IF queueFamily.graphics
                 THEN [indices EXCEPT !.graphicsFamily = RecordIndex(@, i)]
                 ELSE indices
             afterPresent ==
                 IF queueFamily.present
                 THEN [afterGraphics EXCEPT !.presentFamily = RecordIndex(@, i)]
                 ELSE afterGraphics
         IN ScanQueueFamilies(vkQueueFamilies, i + 1, afterPresent)

\* The loop over depthFormatCandidates from candidate k on; it breaks at the
\* first supported candidate.
RECURSIVE DepthFormatFrom(_, _)
DepthFormatFrom(depthSupport, k) ==
    IF k > Len(depthFormatCandidates) THEN "UNDEFINED"
    ELSE IF depthFormatCandidates[k] \in depthSupport THEN depthFormatCandidates[k]
    ELSE DepthFormatFrom(depthSupport, k + 1)

\* The same loop without its break.
RECURSIVE DepthFormatNoBreakFrom(_, _, _)
DepthFormatNoBreakFrom(depthSupport, k, found) ==
    IF k > Len(depthFormatCandidates) THEN found
    ELSE DepthFormatNoBreakFrom(depthSupport, k + 1,
            IF depthFormatCandidates[k] \in depthSupport
            THEN depthFormatCandidates[k] ELSE found)

currentDepthFormatNoBreak(depthSupport) == DepthFormatNoBreakFrom(depthSupport, 1, "UNDEFINED")
currentDepthFormat(depthSupport) == DepthFormatFrom(depthSupport, 1)

\* The swap-chain details fetched for a device: nothing is fetched from a device
\* that lacks a desired extension.
currenDeviceSwapChainDetails(device, allExtensionsAvailable) ==
    IF allExtensionsAvailable
    THEN [capabilities |-> device.capabilities,
          formats |-> device.formats,
          presentModes |-> device.presentModes]
    ELSE NoDetails

DeviceCountNotChecked == FALSE
DeviceCountIsZero == Len(vkDevices) = 0

NoDeviceSelectedYetDropped == TRUE
NoDeviceSelectedYet == vkPhysicalDevice = VK_NULL_HANDLE

surfaceConfiguration == << vkSelectedFormat, vkSelectedPresendMode, vkSelectedExtent, imageCount >>
selection == << vkPhysicalDevice, queueFamilyIndices, swapChainSupportDetails, depthFormat >>
frameLoop == << pc, debugMode, MAX_FRAMES_IN_FLIGHT, numImages, step, created, failed,
                destroyed, closeFlag, currentFrame, imageIndex, acquireFailed,
                waitedFence, fenceSignaled, imagesInFlight, inFlight, iterUpdated,
                uniformWritten, iterClaimed, iterSubmitted, iterPresented, queues, layers >>

\* vkEnumeratePhysicalDevices and the test of the device count.
EnumerateDevices ==
    /\ negPc = "enumerate"
    /\ IF DeviceCountIsZero
       THEN /\ errorMessage' = "No physical devices!"
            /\ negPc' = "aborted"
       ELSE /\ errorMessage' = errorMessage
            /\ negPc' = "examine"
    /\ UNCHANGED << vkDevices, examined, currentDeviceQueueFamilyIndices, selection,
                    vkDevice, surfaceConfiguration, vkSwapChainCreateInfo,
                    frameLoop >>

\* One pass of the loop over vkDevices.
ExamineDevice ==
    /\ negPc = "examine"
    /\ examined < Len(vkDevices)
    /\ LET handle == examined + 1
           device == vkDevices[handle]
           allExtensionsAvailable == requiredExtensions(device.extensions) = {}
           indices == ScanQueueFamilies(device.queueFamilies, 0, NoQueueFamilyIndices)
           queuesOk == indices.graphicsFamily # Nullopt /\ indices.presentFamily # Nullopt
           details == currenDeviceSwapChainDetails(device, allExtensionsAvailable)
           swapChainOk == details.formats # << >> /\ details.presentModes # << >>
           depth == currentDepthFormat(device.depthSupport)
           depthFormatOk == depth # "UNDEFINED"
       IN /\ currentDeviceQueueFamilyIndices' = indices
          /\ IF /\ NoDeviceSelectedYet
                /\ allExtensionsAvailable
                /\ queuesOk
                /\ swapChainOk
                /\ depthFormatOk
             THEN /\ vkPhysicalDevice' = handle
                  /\ queueFamilyIndices' = indices
                  /\ swapChainSupportDetails' = details
                  /\ depthFormat' = depth
             ELSE UNCHANGED selection
    /\ examined' = examined + 1
    /\ UNCHANGED << negPc, vkDevices, errorMessage, vkDevice, surfaceConfiguration,
                    vkSwapChainCreateInfo,
                    frameLoop >>

\* The test after the loop: has a device been selected?
CheckSelected ==
    /\ negPc = "examine"
    /\ examined = Len(vkDevices)
    /\ IF vkPhysicalDevice = VK_NULL_HANDLE
       THEN /\ errorMessage' = "No suitable physical devices available!"
            /\ negPc' = "aborted"
       ELSE /\ errorMessage' = errorMessage
            /\ negPc' = "createDevice"
    /\ UNCHANGED << vkDevices, examined, currentDeviceQueueFamilyIndices, selection,
                    vkDevice, surfaceConfiguration, vkSwapChainCreateInfo,
                    frameLoop >>

\* vkCreateDevice on the selected physical device.
CreateLogicalDevice ==
    /\ negPc = "createDevice"
    /\ vkDevice' = TRUE
    /\ negPc' = "selectFormat"
    /\ UNCHANGED << vkDevices, examined, currentDeviceQueueFamilyIndices, selection,
                    errorMessage, surfaceConfiguration, vkSwapChainCreateInfo,
                    frameLoop >>

----------------------------------------------------------------------------
(* Surface configuration and the size of the swap chain (step 5 of main()) *)

IsPreferredFormatByFormatOnly(availableFormat) == availableFormat.format = "B8G8R8A8_SRGB"
IsPreferredFormat(availableFormat) ==
    /\ availableFormat.format = "B8G8R8A8_SRGB"
    /\ availableFormat.colorSpace = "SRGB_NONLINEAR"

\* The loop over the formats from position k on; it breaks at the preferred pair.
RECURSIVE SelectFormatFrom(_, _, _)
SelectFormatFrom(formats, k, selected) ==
    IF k > Len(formats) THEN selected
    ELSE IF IsPreferredFormat(formats[k]) THEN formats[k]
    ELSE SelectFormatFrom(formats, k + 1, selected)

SelectedFormat(formats) == SelectFormatFrom(formats, 1, formats[1])

\* The loop over the present modes from position k on; it breaks at MAILBOX and
\* goes on after FIFO.
RECURSIVE SelectPresentModeFrom(_, _, _)
SelectPresentModeFrom(presentModes, k, selected) ==
    IF k > Len(presentModes) THEN selected
    ELSE IF presentModes[k] = "MAILBOX" THEN presentModes[k]
    ELSE IF presentModes[k] = "FIFO"
         THEN SelectPresentModeFrom(presentModes, k + 1, presentModes[k])
         ELSE SelectPresentModeFrom(presentModes, k + 1, selected)

\* The same loop with a break after FIFO as well.
RECURSIVE SelectPresentModeBreakAtFifoFrom(_, _, _)
SelectPresentModeBreakAtFifoFrom(presentModes, k, selected) ==
    IF k > Len(presentModes) THEN selected
    ELSE IF presentModes[k] \in {"MAILBOX", "FIFO"} THEN presentModes[k]
    ELSE SelectPresentModeBreakAtFifoFrom(presentModes, k + 1, selected)

SelectedPresentModeBreakAtFifo(presentModes) ==
    SelectPresentModeBreakAtFifoFrom(presentModes, 1, presentModes[1])
SelectedPresentMode(presentModes) == SelectPresentModeFrom(presentModes, 1, presentModes[1])

StdMin(a, b) == IF b < a THEN b ELSE a
StdMax(a, b) == IF a < b THEN b ELSE a

ClampSwapped(lo, hi, requested) == StdMin(lo, StdMax(hi, requested))
Clamp(lo, hi, requested) == StdMax(lo, StdMin(hi, requested))

SelectedExtent(capabilities) ==
    IF capabilities.currentExtent.width # UINT32_MAX
    THEN capabilities.currentExtent
    ELSE [width |-> Clamp(capabilities.minImageExtent.width,
                          capabilities.maxImageExtent.width, WINDOW_WIDTH),
          height |-> Clamp(capabilities.minImageExtent.height,
                           capabilities.maxImageExtent.height, WINDOW_HEIGHT)]

\* n + 1 in uint32_t.
Uint32Succ(n) == IF n = UINT32_MAX THEN 0 ELSE n + 1

HasUpperBoundAlways(maxImageCount) == TRUE
HasUpperBound(maxImageCount) == maxImageCount > 0

SelectedImageCount(capabilities) ==
    LET requested == Uint32Succ(capabilities.minImageCount)
    IN IF HasUpperBound(capabilities.maxImageCount) /\ requested > capabilities.maxImageCount
       THEN capabilities.maxImageCount
       ELSE requested

SelectFormat ==
    /\ negPc = "selectFormat"
    /\ vkSelectedFormat' = SelectedFormat(swapChainSupportDetails.formats)
    /\ negPc' = "selectPresentMode"
    /\ UNCHANGED << vkDevices, examined, currentDeviceQueueFamilyIndices, selection,
                    errorMessage, vkDevice, vkSelectedPresendMode, vkSelectedExtent,
                    imageCount, vkSwapChainCreateInfo,
                    frameLoop >>

SelectPresentMode ==
    /\ negPc = "selectPresentMode"
    /\ vkSelectedPresendMode' = SelectedPresentMode(swapChainSupportDetails.presentModes)
    /\ negPc' = "selectExtent"
    /\ UNCHANGED << vkDevices, examined, currentDeviceQueueFamilyIndices, selection,
                    errorMessage, vkDevice, vkSelectedFormat, vkSelectedExtent,
                    imageCount, vkSwapChainCreateInfo,
                    frameLoop >>

SelectExtent ==
    /\ negPc = "selectExtent"
    /\ vkSelectedExtent' = SelectedExtent(swapChainSupportDetails.capabilities)
    /\ negPc' = "imageCount"
    /\ UNCHANGED << vkDevices, examined, currentDeviceQueueFamilyIndices, selection,
                    errorMessage, vkDevice, vkSelectedFormat, vkSelectedPresendMode,
                    imageCount, vkSwapChainCreateInfo,
                    frameLoop >>

SelectImageCount ==
    /\ negPc = "imageCount"
    /\ imageCount' = SelectedImageCount(swapChainSupportDetails.capabilities)
    /\ negPc' = "configured"
    /\ UNCHANGED << vkDevices, examined, currentDeviceQueueFamilyIndices, selection,
                    errorMessage, vkDevice, vkSelectedFormat, vkSelectedPresendMode,
                    vkSelectedExtent, vkSwapChainCreateInfo,
                    frameLoop >>

FamiliesDifferNever(graphicsFamily, presentFamily) == FALSE
FamiliesDiffer(graphicsFamily, presentFamily) == graphicsFamily # presentFamily

\* The sharing mode and the family indices put into vkSwapChainCreateInfo.
SharingOf(familyIndices) ==
    IF FamiliesDiffer(familyIndices[1], familyIndices[2])
    THEN [imageSharingMode |-> "CONCURRENT",
          queueFamilyIndexCount |-> Len(familyIndices),
          pQueueFamilyIndices |-> familyIndices]
    ELSE [imageSharingMode |-> "EXCLUSIVE",
          queueFamilyIndexCount |-> 0,
          pQueueFamilyIndices |-> << >>]

SelectSharingMode ==
    /\ negPc = "configured"
    /\ vkSwapChainCreateInfo' =
           SharingOf(<< queueFamilyIndices.graphicsFamily, queueFamilyIndices.presentFamily >>)
    /\ negPc' = "swapChain"
    /\ UNCHANGED << vkDevices, examined, currentDeviceQueueFamilyIndices, selection,
                    errorMessage, vkDevice, surfaceConfiguration, frameLoop >>

\* The frame loop has not begun while main() selects a device and configures
\* the surface.
FrameLoopNotStarted ==
    /\ pc = "startup"
    /\ debugMode = TRUE
    /\ MAX_FRAMES_IN_FLIGHT = ShippedFrames
    /\ numImages = ShippedImages
    /\ step = 1
    /\ created = << >>
    /\ failed = {}
    /\ destroyed = << >>
    /\ closeFlag = FALSE
    /\ currentFrame = 0
    /\ imageIndex = NoIndex
    /\ acquireFailed = FALSE
    /\ waitedFence = VK_NULL_HANDLE
    /\ fenceSignaled = [s \in Slots |-> FALSE]
    /\ imagesInFlight = [i \in Images |-> VK_NULL_HANDLE]
    /\ inFlight = [p \in Slots \X Images |-> 0]
    /\ iterUpdated = FALSE
    /\ uniformWritten = {}
    /\ iterClaimed = FALSE
    /\ iterSubmitted = FALSE
    /\ iterPresented = FALSE
    /\ QueuesInit

NegotiationInit ==
    /\ FrameLoopNotStarted
    /\ LayersReset
    /\ negPc = "enumerate"
    /\ vkDevices \in DeviceLists
    /\ NegotiationReset

NegotiationNext ==
    \/ EnumerateDevices
    \/ ExamineDevice
    \/ CheckSelected
    \/ CreateLogicalDevice
    \/ SelectFormat
    \/ SelectPresentMode
    \/ SelectExtent
    \/ SelectImageCount
    \/ SelectSharingMode

NegotiationSpec == NegotiationInit /\ [][NegotiationNext]_vars

----------------------------------------------------------------------------
(* The frame loop with the semaphores, the queues and the presentation engine *)

build == << debugMode, MAX_FRAMES_IN_FLIGHT, numImages, negotiation, layers >>

\* The semaphore a submission of slot s waits on, and the one it signals.
\* waitSemaphores{ imageAvailableSemaphores[currentFrame] }
WaitSemaphoreOfNextSlot(s) == (s + 1) % MAX_FRAMES_IN_FLIGHT
WaitSemaphoreOf(s) == s
\* signalSemaphores{ renderFinishedSemaphores[currentFrame] }
SignalSemaphoreOf(s) == s
\* presentInfo.pWaitSemaphores = signalSemaphores.data()
PresentWaitsFor(s) == renderFinishedSemaphores[SignalSemaphoreOf(s)] = "signaled"

\* vkAcquireNextImageKHR returns the index of an image the presentation engine
\* has let go of, or will let go of, and asks for a signal of
\* imageAvailableSemaphores[currentFrame]; it blocks while there is no such image.
AcquireImage ==
    /\ pc = "acquire"
    /\ \E i \in Images :
        /\ imageState[i] = "free"
        /\ imageIndex' = i
        /\ imageState' = [imageState EXCEPT ![i] = "acquiring"]
        /\ imageAvailableSemaphores' =
               [imageAvailableSemaphores EXCEPT ![currentFrame] =
                    [state |-> "pending", image |-> i]]
    /\ acquireFailed' = FALSE
    /\ pc' = "update"
    /\ UNCHANGED << build, startup, destroyed, closeFlag, currentFrame, waitedFence,
                    sync, iter, renderFinishedSemaphores, rendering, presentQueue >>

\* The presentation engine lets go of an acquired image and signals the
\* semaphore given to the acquisition.
ImageBecomesAvailable ==
    /\ \E s \in Slots :
        /\ imageAvailableSemaphores[s].state = "pending"
        /\ imageAvailableSemaphores' =
               [imageAvailableSemaphores EXCEPT ![s].state = "signaled"]
        /\ imageState' =
               [imageState EXCEPT ![imageAvailableSemaphores[s].image] = "acquired"]
    /\ UNCHANGED << pc, build, startup, destroyed, closeFlag, currentFrame, imageIndex,
                    acquireFailed, waitedFence, sync, iter, renderFinishedSemaphores,
                    rendering, presentQueue >>

\* The graphics queue passes the wait of a submission at the colour-attachment
\* output stage: the semaphore is signaled, and the wait unsignals it.
BeginColorOutput ==
    /\ \E s \in Slots, i \in Images :
        /\ inFlight[<< s, i >>] > 0
        /\ << s, i >> \notin rendering
        /\ imageAvailableSemaphores[WaitSemaphoreOf(s)].state = "signaled"
        /\ imageAvailableSemaphores' =
               [imageAvailableSemaphores EXCEPT ![WaitSemaphoreOf(s)] = Unsignaled]
        /\ rendering' = rendering \cup {<< s, i >>}
        /\ imageState' = [imageState EXCEPT ![i] = "rendering"]
    /\ UNCHANGED << pc, build, startup, destroyed, closeFlag, currentFrame, imageIndex,
                    acquireFailed, waitedFence, sync, iter, renderFinishedSemaphores,
                    presentQueue >>

\* The graphics queue finishes a submission: it signals the semaphore and the
\* fence the submission was made with.
FinishRendering ==
    /\ \E s \in Slots, i \in Images :
        /\ << s, i >> \in rendering
        /\ inFlight' = [inFlight EXCEPT ![<< s, i >>] = @ - 1]
        /\ fenceSignaled' = [fenceSignaled EXCEPT ![s] = TRUE]
        /\ renderFinishedSemaphores' =
               [renderFinishedSemaphores EXCEPT ![SignalSemaphoreOf(s)] = "signaled"]
        /\ rendering' = rendering \ {<< s, i >>}
        /\ imageState' = [imageState EXCEPT ![i] = "rendered"]
    /\ UNCHANGED << pc, build, startup, destroyed, closeFlag, currentFrame, imageIndex,
                    acquireFailed, waitedFence, imagesInFlight, iter,
                    imageAvailableSemaphores, presentQueue >>

\* vkQueuePresentKHR puts a request for imageIndex that waits for
\* renderFinishedSemaphores[currentFrame] on the present queue.
QueuePresent ==
    /\ pc = "present"
    /\ presentQueue' = Append(presentQueue, << currentFrame, imageIndex >>)
    /\ iterPresented' = TRUE
    /\ pc' = "advance"
    /\ UNCHANGED << build, startup, destroyed, closeFlag, currentFrame, imageIndex,
                    acquireFailed, waitedFence, sync, iterUpdated, uniformWritten, iterClaimed,
                    iterSubmitted, imageAvailableSemaphores, renderFinishedSemaphores,
                    imageState, rendering >>

\* The present queue executes its oldest request: the wait unsignals the
\* semaphore and the image goes to the presentation engine.
ExecutePresent ==
    /\ presentQueue # << >>
    /\ PresentWaitsFor(Head(presentQueue)[1])
    /\ renderFinishedSemaphores' =
           [renderFinishedSemaphores EXCEPT ![SignalSemaphoreOf(Head(presentQueue)[1])] =
                "unsignaled"]
    /\ imageState' = [imageState EXCEPT ![Head(presentQueue)[2]] = "free"]
    /\ presentQueue' = Tail(presentQueue)
    /\ UNCHANGED << pc, build, startup, destroyed, closeFlag, currentFrame, imageIndex,
                    acquireFailed, waitedFence, sync, iter, imageAvailableSemaphores,
                    rendering >>

\* main() enters the loop with every object created and every fence signaled.
QueueInit ==
    /\ pc = "loop"
    /\ debugMode = TRUE
    /\ \E c \in Configurations :
        /\ MAX_FRAMES_IN_FLIGHT = c[1]
        /\ numImages = c[2]
    /\ step = Len(CreationOrder) + 1
    /\ created = CreationOrder
    /\ failed = {}
    /\ destroyed = << >>
    /\ closeFlag = FALSE
    /\ currentFrame = 0
    /\ imageIndex = NoIndex
    /\ acquireFailed = FALSE
    /\ waitedFence = VK_NULL_HANDLE
    /\ fenceSignaled = [s \in Slots |-> FenceCreateSignaled]
    /\ imagesInFlight = [i \in Images |-> VK_NULL_HANDLE]
    /\ inFlight = [p \in Slots \X Images |-> 0]
    /\ iterUpdated = FALSE
    /\ uniformWritten = {}
    /\ iterClaimed = FALSE
    /\ iterSubmitted = FALSE
    /\ iterPresented = FALSE
    /\ negPc = "passed"
    /\ vkDevices = << DefaultDevice >>
    /\ NegotiationReset
    /\ QueuesInit
    /\ LayersReset

QueueNext ==
    \/ LoopCheck
    \/ Pump
    \/ Throttle
    \/ AcquireImage
    \/ AcquireFail
    \/ Update
    \/ CrossWait
    \/ Claim
    \/ ResetFence
    \/ SubmitOk
    \/ SubmitFail
    \/ QueuePresent
    \/ Advance
    \/ ImageBecomesAvailable
    \/ BeginColorOutput
    \/ FinishRendering
    \/ ExecutePresent

QueueSpec == QueueInit /\ [][QueueNext]_vars

----------------------------------------------------------------------------
(* Properties of the frame loop *)

\* C1: at every instant the number of graphics-queue submissions whose fence
\* is not yet signaled is at most MAX_FRAMES_IN_FLIGHT, for every acquisition
\* order and every number of images.
C1_OutstandingBounded == Outstanding <= MAX_FRAMES_IN_FLIGHT

\* The CPU is held in the throttle wait with MAX_FRAMES_IN_FLIGHT submissions
\* outstanding.
C1_Witness ==
    /\ pc = "throttle"
    /\ ~fenceSignaled[currentFrame]
    /\ Outstanding = MAX_FRAMES_IN_FLIGHT

\* C2: the CPU never writes the uniform buffer of an image while a submission
\* that reads it is outstanding, for every order in which the swap chain
\* hands out its images.
C2_NoUniformWriteWhileInUse ==
    [][(pc = "update" /\ iterUpdated' /\ ~acquireFailed)
          => TargetOutstanding(imageIndex) = 0]_vars

\* C3: when the command buffer of image imageIndex is submitted, every earlier
\* submission of that command buffer has completed on the GPU.
C3_SubmitAfterTargetRetired == pc = "submit" => TargetOutstanding(imageIndex) = 0

\* An image was submitted again after the loop waited on the fence of another
\* slot, the one that used the image last.
C3_Witness ==
    /\ pc = "present"
    /\ iterSubmitted
    /\ waitedFence \notin {VK_NULL_HANDLE, currentFrame}

\* C4: at most one submission made with a slot's fence is outstanding, and a
\* slot is submitted again only after its previous submission was retired.
C4_OneSubmissionPerSlot ==
    /\ \A s \in Slots : SlotOutstanding(s) <= 1
    /\ pc = "submit" => SlotOutstanding(currentFrame) = 0

\* A slot that rendered another image before has been submitted again.
C4_Witness ==
    /\ pc = "present"
    /\ SlotOutstanding(currentFrame) = 1
    /\ \E i \in Images : i # imageIndex /\ imagesInFlight[i] = currentFrame

\* The points between two steps of the loop; "submit" lies inside the Submit
\* step, between its fence reset and its queue submission.
LoopStepBoundaries ==
    {"loop", "pump", "throttle", "acquire", "update", "crosswait", "claim", "reset",
     "present", "advance", "waitidle"}

\* C5: between two steps of the loop, a slot's fence is signaled if and only
\* if the GPU has finished everything submitted for the slot's latest frame.
C5_FenceIffRetired ==
    pc \in LoopStepBoundaries =>
        \A s \in Slots : fenceSignaled[s] <=> (SlotOutstanding(s) = 0)

\* One slot's frame is still on the GPU while another slot's frame, which
\* rendered some image, has been retired.
C5_Witness ==
    /\ pc = "throttle"
    /\ \E s \in Slots : ~fenceSignaled[s] /\ SlotOutstanding(s) = 1
    /\ \E s \in Slots, i \in Images :
          fenceSignaled[s] /\ SlotOutstanding(s) = 0 /\ imagesInFlight[i] = s

\* C6: a failed image acquisition is fatal: the program terminates, and the
\* iteration makes no resource update, claim, submit or present.
C6_AcquireFailureIsFatal ==
    acquireFailed =>
        /\ pc = "aborted"
        /\ ~iterUpdated /\ ~iterClaimed /\ ~iterSubmitted /\ ~iterPresented

----------------------------------------------------------------------------
(* Properties of start-up and deinitialization *)

\* The Vulkan objects main() creates at start-up.
VulkanObjects ==
    {CreationOrder[k] : k \in 1 .. Len(CreationOrder)} \ {"glfw", "window"}

\* C7: every object-creation call of start-up is checked: once one of them
\* has failed the program has terminated.
C7_CreationFailureTerminates ==
    (failed \cap VulkanObjects # {}) => pc = "aborted"

\* C8: no resource is destroyed while a GPU submission is outstanding; the
\* first destruction call comes after the wait for the idle device.
C8_DestroyAfterIdle ==
    (pc = "destroy" \/ destroyed # << >>) => Outstanding = 0

\* Destruction has begun in a run that submitted frames.
C8_Witness ==
    /\ pc = "destroy"
    /\ Len(destroyed) >= 1
    /\ iterSubmitted

\* The position of object r in the sequence q, 0 when it is not there.
PositionIn(q, r) ==
    IF \E k \in 1 .. Len(q) : q[k] = r
      THEN CHOOSE k \in 1 .. Len(q) : q[k] = r
      ELSE 0

\* C9: the owned resources are destroyed in exactly the reverse of their
\* creation order: of two destroyed resources the one created later is
\* destroyed first.
C9_ReverseCreationOrder ==
    \A a, b \in 1 .. Len(created) :
        (/\ a < b
         /\ PositionIn(destroyed, created[a]) > 0
         /\ PositionIn(destroyed, created[b]) > 0)
            => PositionIn(destroyed, created[b]) < PositionIn(destroyed, created[a])

\* C10: the loop ends, other than fatally, only at its head and only on a
\* close request: the iteration whose pump saw the request still submits and
\* presents, no further iteration starts, and without a request the head
\* always starts another iteration.
C10_CloseActedOnAtLoopHead ==
    [][/\ (pc = "loop" /\ pc' # "loop")
            => \/ closeFlag /\ pc' = "waitidle"
               \/ ~closeFlag /\ pc' = "pump"
       /\ (pc' = "waitidle" /\ pc # "waitidle")
            => pc = "loop" /\ closeFlag /\ iterSubmitted /\ iterPresented
       /\ (pc' = "pump" /\ pc # "pump") => ~closeFlag]_vars

\* The loop was left after an iteration that saw the close request and
\* presented its frame.
C10_Witness ==
    /\ pc = "waitidle"
    /\ closeFlag
    /\ iterSubmitted
    /\ iterPresented

----------------------------------------------------------------------------
(* Properties of device selection and surface configuration *)

\* The four tests a device must pass to be selected.
Suitable(device) ==
    /\ desiredDeviceExtensions \subseteq device.extensions
    /\ \E k \in 1 .. Len(device.queueFamilies) : device.queueFamilies[k].graphics
    /\ \E k \in 1 .. Len(device.queueFamilies) : device.queueFamilies[k].present
    /\ device.formats # << >>
    /\ device.presentModes # << >>
    /\ \E k \in 1 .. Len(depthFormatCandidates) : depthFormatCandidates[k] \in device.depthSupport

\* The positions of the suitable devices among the first n of the enumeration.
SuitableAmong(n) == {k \in 1 .. n : Suitable(vkDevices[k])}

Least(S) == CHOOSE k \in S : \A j \in S : k <= j
Greatest(S) == CHOOSE k \in S : \A j \in S : j <= k

\* C11: the device kept by the selection loop is the first device, in
\* enumeration order, that passes all four tests, and the queue-family indices,
\* swap-chain details and depth format kept are those of that same device; no
\* device is kept while none of the devices gone through passes.
C11_FirstSuitableDeviceKept ==
    IF SuitableAmong(examined) = {}
    THEN vkPhysicalDevice = VK_NULL_HANDLE
    ELSE LET first == vkDevices[Least(SuitableAmong(examined))]
         IN /\ vkPhysicalDevice = Least(SuitableAmong(examined))
            /\ queueFamilyIndices =
                   ScanQueueFamilies(first.queueFamilies, 0, NoQueueFamilyIndices)
            /\ swapChainSupportDetails =
                   [capabilities |-> first.capabilities,
                    formats |-> first.formats,
                    presentModes |-> first.presentModes]
            /\ depthFormat = currentDepthFormat(first.depthSupport)

\* An unsuitable device, then two suitable devices that differ in every kept
\* detail: the first of the two is kept.
C11_Witness ==
    /\ negPc = "configured"
    /\ Len(vkDevices) = 3
    /\ SuitableAmong(3) = {2, 3}
    /\ vkDevices[2].queueFamilies # vkDevices[3].queueFamilies
    /\ vkDevices[2].formats # vkDevices[3].formats
    /\ vkDevices[2].depthSupport # vkDevices[3].depthSupport
    /\ vkPhysicalDevice = 2

NoPhysicalDevices == "No physical devices!"
NoSuitableDevices == "No suitable physical devices available!"

\* C12: "No suitable physical devices available!" is reported exactly when the
\* enumeration is not empty and no device of it passes all four tests, "No
\* physical devices!" exactly when the enumeration is empty, and in both cases
\* main() aborts before the logical device is created.
C12_SelectionErrors ==
    /\ errorMessage = NoPhysicalDevices <=> (vkDevices = << >> /\ negPc # "enumerate")
    /\ errorMessage = NoSuitableDevices <=>
           /\ vkDevices # << >>
           /\ negPc \notin {"enumerate", "examine"}
           /\ SuitableAmong(Len(vkDevices)) = {}
    /\ errorMessage # "" => (negPc = "aborted" /\ ~vkDevice)
    /\ vkDevice => SuitableAmong(Len(vkDevices)) # {}

\* Two devices that fail different tests: the selection loop goes through both
\* and main() aborts.
C12_Witness ==
    /\ negPc = "aborted"
    /\ Len(vkDevices) = 2
    /\ vkDevices[1].formats = << >>
    /\ vkDevices[2].queueFamilies = << >>
    /\ examined = 2
    /\ errorMessage = NoSuitableDevices
    /\ ~vkDevice

\* C13: MAILBOX is selected whenever the device lists it, at any position;
\* otherwise FIFO is selected whenever the device lists it; otherwise the first
\* listed present mode is selected.
C13_PresentModeSelection ==
    negPc \in {"selectExtent", "imageCount", "configured"} =>
        LET presentModes == swapChainSupportDetails.presentModes
        IN vkSelectedPresendMode =
               IF "MAILBOX" \in Range(presentModes) THEN "MAILBOX"
               ELSE IF "FIFO" \in Range(presentModes) THEN "FIFO"
               ELSE presentModes[1]

\* FIFO is listed before MAILBOX and MAILBOX is selected.
C13_Witness ==
    /\ negPc = "selectExtent"
    /\ swapChainSupportDetails.presentModes = << "FIFO", "MAILBOX" >>
    /\ vkSelectedPresendMode = "MAILBOX"

PreferredFormat == [format |-> "B8G8R8A8_SRGB", colorSpace |-> "SRGB_NONLINEAR"]

\* C14: the selected surface format is the pair (B8G8R8A8_SRGB, SRGB_NONLINEAR)
\* whenever the device lists that pair, at any position; otherwise it is the
\* first listed format.
C14_SurfaceFormatSelection ==
    negPc \in {"selectPresentMode", "selectExtent", "imageCount", "configured"} =>
        LET formats == swapChainSupportDetails.formats
        IN vkSelectedFormat =
               IF PreferredFormat \in Range(formats) THEN PreferredFormat ELSE formats[1]

\* The preferred pair is listed second, after a format that shares only its
\* format with it, and is selected.
C14_Witness ==
    /\ negPc = "selectPresentMode"
    /\ Len(swapChainSupportDetails.formats) = 2
    /\ swapChainSupportDetails.formats[1].format = PreferredFormat.format
    /\ swapChainSupportDetails.formats[1] # PreferredFormat
    /\ swapChainSupportDetails.formats[2] = PreferredFormat
    /\ vkSelectedFormat = PreferredFormat

\* result is requested clamped into [lo, hi].
ClampedInto(result, requested, lo, hi) ==
    /\ lo <= result /\ result <= hi
    /\ (lo <= requested /\ requested <= hi) => result = requested
    /\ requested < lo => result = lo
    /\ requested > hi => result = hi

\* C15: when the surface reports UINT32_MAX as its current width, each component
\* of the selected extent is the requested window size clamped into
\* [minImageExtent, maxImageExtent]; otherwise the selected extent is the
\* current extent of the surface, whatever the requested size is.
C15_ExtentSelection ==
    negPc \in {"imageCount", "configured"} =>
        LET capabilities == swapChainSupportDetails.capabilities
        IN IF capabilities.currentExtent.width = UINT32_MAX
           THEN /\ ClampedInto(vkSelectedExtent.width, WINDOW_WIDTH,
                               capabilities.minImageExtent.width,
                               capabilities.maxImageExtent.width)
                /\ ClampedInto(vkSelectedExtent.height, WINDOW_HEIGHT,
                               capabilities.minImageExtent.height,
                               capabilities.maxImageExtent.height)
           ELSE vkSelectedExtent = capabilities.currentExtent

\* The surface accepts any size, the requested width is below the least width
\* and the requested height is above the greatest height.
C15_Witness ==
    /\ negPc = "imageCount"
    /\ swapChainSupportDetails.capabilities.currentExtent.width = UINT32_MAX
    /\ swapChainSupportDetails.capabilities.minImageExtent.width > WINDOW_WIDTH
    /\ swapChainSupportDetails.capabilities.maxImageExtent.height < WINDOW_HEIGHT
    /\ vkSelectedExtent.width = swapChainSupportDetails.capabilities.minImageExtent.width
    /\ vkSelectedExtent.height = swapChainSupportDetails.capabilities.maxImageExtent.height

GraphicsFamilies(device) ==
    {i \in 0 .. (Len(device.queueFamilies) - 1) : device.queueFamilies[i + 1].graphics}
PresentFamilies(device) ==
    {i \in 0 .. (Len(device.queueFamilies) - 1) : device.queueFamilies[i + 1].present}

\* C19 as stated: for each device the recorded graphics index is the first
\* (lowest) index of a family with the graphics flag and the recorded present
\* index is the first (lowest) index of a family that can present.
C19_FirstFamilyRecorded ==
    examined >= 1 =>
        LET device == vkDevices[examined]
        IN /\ currentDeviceQueueFamilyIndices.graphicsFamily =
                  IF GraphicsFamilies(device) = {} THEN Nullopt
                  ELSE Least(GraphicsFamilies(device))
           /\ currentDeviceQueueFamilyIndices.presentFamily =
                  IF PresentFamilies(device) = {} THEN Nullopt
                  ELSE Least(PresentFamilies(device))

\* C19, amended: for each device the recorded graphics index is the last
\* (highest) index of a family with the graphics flag and the recorded present
\* index is the last (highest) index of a family that can present; each is
\* found without regard to the other, and each is the index of a family of
\* that device, or empty when the device has no such family.
C19_LastFamilyRecorded ==
    examined >= 1 =>
        LET device == vkDevices[examined]
        IN /\ currentDeviceQueueFamilyIndices.graphicsFamily =
                  IF GraphicsFamilies(device) = {} THEN Nullopt
                  ELSE Greatest(GraphicsFamilies(device))
           /\ currentDeviceQueueFamilyIndices.presentFamily =
                  IF PresentFamilies(device) = {} THEN Nullopt
                  ELSE Greatest(PresentFamilies(device))
           /\ currentDeviceQueueFamilyIndices.graphicsFamily
                  \in {Nullopt} \cup (0 .. (Len(device.queueFamilies) - 1))
           /\ currentDeviceQueueFamilyIndices.presentFamily
                  \in {Nullopt} \cup (0 .. (Len(device.queueFamilies) - 1))

\* Both families have the graphics flag and only the first one can present:
\* the second is recorded for graphics and the first for presentation.
C19_Witness ==
    /\ examined = 1
    /\ vkDevices[1].queueFamilies = << [graphics |-> TRUE, present |-> TRUE],
                                       [graphics |-> TRUE, present |-> FALSE] >>
    /\ currentDeviceQueueFamilyIndices.graphicsFamily = Len(vkDevices[1].queueFamilies) - 1
    /\ currentDeviceQueueFamilyIndices.presentFamily = 0

\* C20: the depth format kept for the selected device is the first format of
\* depthFormatCandidates that the device supports as an optimally tiled
\* depth-stencil attachment, and a device that supports none of them is never
\* selected.
C20_DepthFormatSelection ==
    vkPhysicalDevice # VK_NULL_HANDLE =>
        LET supported == {k \in 1 .. Len(depthFormatCandidates) :
                             depthFormatCandidates[k] \in vkDevices[vkPhysicalDevice].depthSupport}
        IN /\ supported # {}
           /\ depthFormat = depthFormatCandidates[Least(supported)]

\* The selected device supports the second and the third candidate but not the
\* first, and the second is kept.
C20_Witness ==
    /\ negPc = "configured"
    /\ vkPhysicalDevice # VK_NULL_HANDLE
    /\ vkDevices[vkPhysicalDevice].depthSupport \cap Range(depthFormatCandidates)
           = {depthFormatCandidates[2], depthFormatCandidates[3]}
    /\ depthFormat = depthFormatCandidates[2]

\* C21: the swap chain is asked for with concurrent sharing over the graphics
\* and the present family exactly when the two kept indices differ, and with
\* exclusive sharing exactly when they are equal.
C21_SharingMode ==
    negPc = "swapChain" =>
        LET graphicsFamily == queueFamilyIndices.graphicsFamily
            presentFamily == queueFamilyIndices.presentFamily
        IN /\ vkSwapChainCreateInfo.imageSharingMode \in {"CONCURRENT", "EXCLUSIVE"}
           /\ vkSwapChainCreateInfo.imageSharingMode = "CONCURRENT" <=>
                  graphicsFamily # presentFamily
           /\ vkSwapChainCreateInfo.imageSharingMode = "EXCLUSIVE" <=>
                  graphicsFamily = presentFamily
           /\ vkSwapChainCreateInfo.imageSharingMode = "CONCURRENT" =>
                  /\ vkSwapChainCreateInfo.queueFamilyIndexCount = Cardinality({graphicsFamily, presentFamily})
                  /\ Range(vkSwapChainCreateInfo.pQueueFamilyIndices) =
                         {graphicsFamily, presentFamily}

\* The selected device presents from another family than it renders with, and
\* the swap chain is shared by the two.
C21_Witness ==
    /\ negPc = "swapChain"
    /\ queueFamilyIndices.graphicsFamily # queueFamilyIndices.presentFamily
    /\ vkSwapChainCreateInfo.imageSharingMode = "CONCURRENT"
    /\ Len(vkSwapChainCreateInfo.pQueueFamilyIndices) > 1

----------------------------------------------------------------------------
(* Properties of the imagesInFlight table *)

\* C17: whenever imagesInFlight[imageIndex] names a fence, the iteration has
\* waited on that very fence, which is signaled, before it stores its own fence
\* there and submits; it waits on nothing only when the entry is unset, and an
\* entry is unset only until the first iteration that stores its fence in it.
C17_CrossWaitBeforeReuse ==
    /\ [](pc = "claim" =>
            /\ waitedFence = imagesInFlight[imageIndex]
            /\ waitedFence # VK_NULL_HANDLE => fenceSignaled[waitedFence])
    /\ [][\A i \in Images :
            imagesInFlight'[i] # imagesInFlight[i] =>
                /\ pc = "claim"
                /\ pc' = "reset"
                /\ i = imageIndex
                /\ imagesInFlight'[i] = currentFrame]_vars

\* The image of the running iteration was last used by another slot, and the
\* iteration has waited on the fence of that slot.
C17_Witness ==
    /\ pc = "claim"
    /\ imagesInFlight[imageIndex] \in Slots \ {currentFrame}
    /\ waitedFence = imagesInFlight[imageIndex]
    /\ fenceSignaled[waitedFence]

\* C18 as stated: an entry of imagesInFlight that is set names the slot that is
\* using the image now, so the submission that slot has outstanding rendered
\* that image and no other.
C18_EntryNamesSlotUsingImage ==
    \A i \in Images :
        imagesInFlight[i] # VK_NULL_HANDLE =>
            \A j \in Images : inFlight[<< imagesInFlight[i], j >>] > 0 => j = i

\* C18, amended: an entry of imagesInFlight is unset, and then no submission
\* that rendered the image is outstanding, or it names the fence of the slot
\* that stored its fence there last, and then every outstanding submission that
\* rendered the image was made by that slot; the named slot may since have
\* rendered another image.
C18_EntryNamesLastClaimer ==
    \A i \in Images :
        /\ imagesInFlight[i] = VK_NULL_HANDLE => TargetOutstanding(i) = 0
        /\ imagesInFlight[i] # VK_NULL_HANDLE =>
               /\ imagesInFlight[i] \in Slots
               /\ \A s \in Slots : inFlight[<< s, i >>] > 0 => s = imagesInFlight[i]

\* Two entries name the same slot, whose outstanding submission rendered only
\* one of the two images.
C18_Witness ==
    \E i, j \in Images :
        /\ i # j
        /\ imagesInFlight[i] # VK_NULL_HANDLE
        /\ imagesInFlight[i] = imagesInFlight[j]
        /\ inFlight[<< imagesInFlight[j], j >>] > 0
        /\ inFlight[<< imagesInFlight[i], i >>] = 0

----------------------------------------------------------------------------
(* Properties of the iterations *)

\* C22: currentFrame is 0 until the first iteration ends, always names a frame
\* slot, changes only at the end of an iteration, and is then the previous
\* value plus one modulo MAX_FRAMES_IN_FLIGHT, whatever imageIndex is.
C22_CurrentFrameCycles ==
    /\ [](currentFrame \in Slots /\ (pc = "startup" => currentFrame = 0))
    /\ [][(pc = "advance" /\ pc' # "advance") =>
              currentFrame' = (currentFrame + 1) % MAX_FRAMES_IN_FLIGHT]_vars
    /\ [][currentFrame' # currentFrame => (pc = "advance" /\ pc' = "loop")]_vars

\* There are more images than slots, the last slot is about to wrap to slot 0
\* and the iteration has rendered the last image.
C22_Witness ==
    /\ pc = "advance"
    /\ numImages > MAX_FRAMES_IN_FLIGHT
    /\ currentFrame = MAX_FRAMES_IN_FLIGHT - 1
    /\ imageIndex = numImages - 1
    /\ iterPresented

----------------------------------------------------------------------------
(* Properties of the order of the events of a frame *)

\* C23: in every frame the image-available semaphore of the slot is signaled for
\* the image of the frame before the colour-attachment output of the frame's
\* submission starts, the rendering of the frame has finished (its semaphore and
\* its fence are signaled, the image is rendered) before its image is presented,
\* and the fence of the slot is unsignaled on the CPU when the submission that
\* will signal it is made.
C23_FrameEventOrder ==
    /\ [][\A s \in Slots, i \in Images :
            (<< s, i >> \notin rendering /\ << s, i >> \in rendering') =>
                /\ imageAvailableSemaphores[s] = [state |-> "signaled", image |-> i]
                /\ imageState[i] = "acquired"]_vars
    /\ [][Len(presentQueue') < Len(presentQueue) =>
            LET s == Head(presentQueue)[1]
                i == Head(presentQueue)[2]
            IN  /\ renderFinishedSemaphores[s] = "signaled"
                /\ << s, i >> \notin rendering
                /\ imageState[i] = "rendered"]_vars
    /\ [](pc = "submit" => ~fenceSignaled[currentFrame])

\* The request of the running iteration has been executed by the present queue:
\* its image was acquired, rendered and given back in this iteration.
C23_Witness ==
    /\ pc = "advance"
    /\ iterPresented
    /\ ~acquireFailed
    /\ currentFrame = 1
    /\ presentQueue = << >>
    /\ imageState[imageIndex] = "free"

----------------------------------------------------------------------------
(* Properties of the deinitialization *)

\* The objects made with vkDevice as their parent.
DeviceOwned ==
    Range(CreationOrder) \ {"glfw", "window", "instance", "surface", "debugMessenger",
                            "device"}

\* The destruction call that ends the life of a resource: descriptor sets and
\* command buffers have no call of their own and go with their pools.
DestroyedWith(r) ==
    IF r = "descriptorSets" THEN "descriptorPool"
    ELSE IF r = "commandBuffers" THEN "commandPool"
    ELSE r

\* The pairs << dependent, object >> in which the dependent is created from, or
\* written with, a handle of the object.
RefersTo ==
    { << "swapChainFramebuffers", "swapChainImageViews" >>,
      << "swapChainFramebuffers", "renderPass" >>,
      << "graphicsPipeline", "pipelineLayout" >>,
      << "graphicsPipeline", "renderPass" >>,
      << "pipelineLayout", "descriptorSetLayout" >>,
      << "swapChainImageViews", "swapChain" >>,
      << "descriptorSets", "uniformBuffers" >>,
      << "debugMessenger", "instance" >>,
      << "surface", "instance" >> }

Dependencies == RefersTo \cup { << r, "device" >> : r \in DeviceOwned }

\* The place of the call that ends the life of r among the calls made, 0 if it
\* has not been made.
DestroyedAt(r) == PositionIn(destroyed, DestroyedWith(r))

\* C24: at shutdown no resource is destroyed before a resource that depends on
\* it: whenever the object of a dependency is destroyed, its dependent, if it
\* was created, has been destroyed before; and when the deinitialization is
\* over the instance is the last Vulkan object that was destroyed.
C24_DependentsDestroyedFirst ==
    /\ \A d \in Dependencies :
        (DestroyedAt(d[2]) > 0 /\ PositionIn(created, d[1]) > 0) =>
            /\ DestroyedAt(d[1]) > 0
            /\ DestroyedAt(d[1]) < DestroyedAt(d[2])
    /\ pc = "done" =>
        \A r \in Range(destroyed) \ {"window", "glfw", "instance"} :
            DestroyedAt(r) < DestroyedAt("instance")

----------------------------------------------------------------------------
(* The vectors with one element per swap-chain image *)

Has(r) == \E k \in 1 .. Len(created) : created[k] = r

\* The objects main() keeps one of per swap-chain image; the vectors below are
\* what the creation code builds for them.
PerImageObjects ==
    {"swapChain", "swapChainImageViews", "swapChainFramebuffers", "uniformBuffers",
     "uniformBuffersMemory", "descriptorSets", "commandBuffers"}

\* A std::vector of n elements, element i made by Op; indices start at 0.
Vector(n, Op(_)) == [i \in 0 .. (n - 1) |-> Op(i)]
Size(v) == Cardinality(DOMAIN v)

\* vkGetSwapchainImagesKHR(vkDevice, vkSwapChain, &vkSwapChainImageCount, ...)
vkSwapChainImageCount == numImages

\* vkSwapChainImages.resize(vkSwapChainImageCount)
ImageHandle(i) == [image |-> i]
vkSwapChainImages ==
    Vector(vkSwapChainImageCount, ImageHandle)

\* swapChainImageViews.resize(vkSwapChainImageCount); createInfo.image = vkSwapChainImages[i]
ImageView(i) == [view |-> i, image |-> vkSwapChainImages[i]]
swapChainImageViews ==
    Vector(vkSwapChainImageCount, ImageView)

\* swapChainFramebuffers.resize(swapChainImageViews.size());
\* attachments = { swapChainImageViews[i], depthImageView }
Framebuffer(i) == [framebuffer |-> i, attachment |-> swapChainImageViews[i]]
swapChainFramebuffers ==
    Vector(Size(swapChainImageViews), Framebuffer)

\* uniformBuffers.resize(vkSwapChainImages.size())
UniformBufferCountPerSlot == MAX_FRAMES_IN_FLIGHT
UniformBufferCount == Size(vkSwapChainImages)
UniformBuffer(i) == [buffer |-> i]
uniformBuffers ==
    Vector(UniformBufferCount, UniformBuffer)

\* uniformBuffersMemory.resize(vkSwapChainImages.size());
\* vkBindBufferMemory(vkDevice, uniformBuffers[i], uniformBuffersMemory[i], 0)
UniformBufferMemory(i) == [memory |-> i, boundTo |-> uniformBuffers[i]]
uniformBuffersMemory ==
    Vector(Size(vkSwapChainImages), UniformBufferMemory)

\* descriptorSets.resize(vkSwapChainImages.size());
\* bufferInfo.buffer = uniformBuffers[i]; descriptorWrite.dstSet = descriptorSets[i]
DescriptorSet(i) == [set |-> i, buffer |-> uniformBuffers[i]]
descriptorSets ==
    Vector(Size(vkSwapChainImages), DescriptorSet)

\* commandBuffers.resize(swapChainFramebuffers.size());
\* renderPassInfo.framebuffer = swapChainFramebuffers[i];
\* vkCmdBindDescriptorSets(..., &descriptorSets[i], ...)
CommandBuffer(i) ==
    [commands |-> i, framebuffer |-> swapChainFramebuffers[i],
     descriptorSet |-> descriptorSets[i]]
commandBuffers ==
    Vector(Size(swapChainFramebuffers), CommandBuffer)

perImage ==
    << vkSwapChainImages, swapChainImageViews, swapChainFramebuffers, uniformBuffers,
       uniformBuffersMemory, descriptorSets, commandBuffers, imagesInFlight >>

\* The positions of main() inside the main loop.
InMainLoop ==
    pc \in {"loop", "pump", "throttle", "acquire", "update", "crosswait", "claim", "reset",
            "submit", "present", "advance"}

\* C25: in the main loop every vector with one element per swap-chain image has
\* as many elements as the swap chain reports images, no step of the loop
\* changes the length of any of them, and index i names the same image in all
\* of them: command buffer i renders into framebuffer i, whose attachment is the
\* view of image i, and binds descriptor set i, which refers to uniform buffer i.
C25_PerImageVectorsAgree ==
    /\ [](InMainLoop =>
            /\ \A r \in PerImageObjects : Has(r)
            /\ LET all == perImage
               IN  \A k \in 1 .. Len(all) : Size(all[k]) = vkSwapChainImageCount
            /\ \A i \in Images :
                /\ commandBuffers[i].framebuffer = swapChainFramebuffers[i]
                /\ swapChainFramebuffers[i].attachment = swapChainImageViews[i]
                /\ swapChainImageViews[i].image = vkSwapChainImages[i]
                /\ vkSwapChainImages[i].image = i
                /\ commandBuffers[i].descriptorSet = descriptorSets[i]
                /\ descriptorSets[i].buffer = uniformBuffers[i]
                /\ uniformBuffersMemory[i].boundTo = uniformBuffers[i]
                /\ uniformBuffers[i].buffer = i)
    /\ [][InMainLoop =>
            /\ \A r \in PerImageObjects : Has(r)' = Has(r)
            /\ LET before == perImage
                   after == perImage'
               IN  \A k \in 1 .. Len(before) : Size(after[k]) = Size(before[k])]_vars

\* An iteration runs on the last of several images, in a slot of another number.
C25_Witness ==
    /\ pc = "submit"
    /\ numImages > MAX_FRAMES_IN_FLIGHT
    /\ imageIndex = numImages - 1
    /\ currentFrame # imageIndex
    /\ Size(commandBuffers) = numImages

----------------------------------------------------------------------------
(* Properties of the uniform update *)

Count(q, r) == Cardinality({k \in 1 .. Len(q) : q[k] = r})

\* C26: an iteration writes exactly one uniform buffer, the one at imageIndex
\* and not the one at currentFrame; the other uniform buffers are not written,
\* and no step of the loop changes a command buffer, a descriptor set or a
\* framebuffer: the command buffers are recorded once, at startup.
C26_OneUniformWritePerIteration ==
    /\ [](iterUpdated => uniformWritten = {imageIndex})
    /\ [](InMainLoop /\ ~iterUpdated => uniformWritten = {})
    /\ [][uniformWritten' # uniformWritten =>
            \/ pc = "update" /\ uniformWritten' = {imageIndex}
            \/ pc = "loop" /\ uniformWritten' = {}]_vars
    /\ [][InMainLoop =>
            /\ commandBuffers' = commandBuffers
            /\ descriptorSets' = descriptorSets
            /\ swapChainFramebuffers' = swapChainFramebuffers
            /\ uniformBuffers' = uniformBuffers]_vars
    /\ [](LET recordings == Count(created, "commandBuffers")
           IN  recordings <= 1 /\ (InMainLoop => recordings = 1))

\* The iteration has written the buffer of its image, in a slot of another number.
C26_Witness ==
    /\ pc = "advance"
    /\ iterUpdated
    /\ iterPresented
    /\ ~acquireFailed
    /\ imageIndex # currentFrame
    /\ uniformWritten = {imageIndex}

----------------------------------------------------------------------------
(* Progress of the main loop *)

\* The ends of the process on a failed call.
FatalEnd == {"aborted", "crashed"}

FenceWillBeSignaled(s) == fenceSignaled[s] \/ SlotOutstanding(s) > 0

----------------------------------------------------------------------------
(* The check of the validation layers (step 2.1 of main(), DEBUG_MODE) *)

\* Longest list of layers the loader reports.
MaxLayers == 3

desiredValidationLayers == << "VK_LAYER_KHRONOS_validation" >>

LayerNames ==
    {"VK_LAYER_KHRONOS_validation", "VK_LAYER_LUNARG_api_dump", "VK_LAYER_MESA_overlay"}

\* std::strcmp: 0 for equal strings, another value for different ones.
Strcmp(a, b) == IF a = b THEN 0 ELSE 1

\* if (std::strcmp(requestedLayer, availableLayer.layerName)): a value other
\* than 0 is true.
LayerTest(a, b) == Strcmp(a, b) # 0

afterLayers == << pc, debugMode, MAX_FRAMES_IN_FLIGHT, numImages, step, created, failed,
                  destroyed, closeFlag, currentFrame, imageIndex, acquireFailed,
                  waitedFence, fenceSignaled, imagesInFlight, inFlight, iterUpdated,
                  uniformWritten, iterClaimed, iterSubmitted, iterPresented, queues,
                  negotiation >>

\* for (auto requestedLayer : desiredValidationLayers) { bool isLayerAvailable = false;
RequestLayer ==
    /\ layerPc = "requested"
    /\ IF requestedLayer > Len(desiredValidationLayers)
         THEN /\ layerPc' = "check"
              /\ UNCHANGED << availableLayer, isLayerAvailable >>
         ELSE /\ layerPc' = "scan"
              /\ availableLayer' = 1
              /\ isLayerAvailable' = FALSE
    /\ UNCHANGED << vkAvailableLayers, requestedLayer, validationLayersAvailable,
                    afterLayers >>

\* One pass of for (auto availableLayer : vkAvailableLayers), or its end.
ScanLayer ==
    /\ layerPc = "scan"
    /\ IF availableLayer > Len(vkAvailableLayers)
         THEN /\ layerPc' = "scanned"
              /\ UNCHANGED << availableLayer, isLayerAvailable >>
         ELSE IF LayerTest(desiredValidationLayers[requestedLayer],
                           vkAvailableLayers[availableLayer])
                THEN /\ isLayerAvailable' = TRUE
                     /\ layerPc' = "scanned"
                     /\ UNCHANGED availableLayer
                ELSE /\ availableLayer' = availableLayer + 1
                     /\ UNCHANGED << layerPc, isLayerAvailable >>
    /\ UNCHANGED << vkAvailableLayers, requestedLayer, validationLayersAvailable,
                    afterLayers >>

\* if (!isLayerAvailable) { validationLayersAvailable = false; break; }
AfterScan ==
    /\ layerPc = "scanned"
    /\ IF ~isLayerAvailable
         THEN /\ validationLayersAvailable' = FALSE
              /\ layerPc' = "check"
              /\ UNCHANGED requestedLayer
         ELSE /\ requestedLayer' = requestedLayer + 1
              /\ layerPc' = "requested"
              /\ UNCHANGED validationLayersAvailable
    /\ UNCHANGED << vkAvailableLayers, availableLayer, isLayerAvailable, afterLayers >>

\* if (!validationLayersAvailable) { std::cerr << ...; abort(); }
CheckLayers ==
    /\ layerPc = "check"
    /\ layerPc' = IF ~validationLayersAvailable THEN "aborted" ELSE "instance"
    /\ UNCHANGED << vkAvailableLayers, requestedLayer, availableLayer, isLayerAvailable,
                    validationLayersAvailable, afterLayers >>

\* main() before the check, with what vkEnumerateInstanceLayerProperties reports.
LayersInit ==
    /\ FrameLoopNotStarted
    /\ negPc = "passed"
    /\ vkDevices = << DefaultDevice >>
    /\ NegotiationReset
    /\ layerPc = "requested"
    /\ vkAvailableLayers \in SeqsUpTo(LayerNames, MaxLayers)
    /\ requestedLayer = 1
    /\ availableLayer = 1
    /\ isLayerAvailable = FALSE
    /\ validationLayersAvailable = TRUE

LayersNext ==
    \/ RequestLayer
    \/ ScanLayer
    \/ AfterScan
    \/ CheckLayers

LayersSpec == LayersInit /\ [][LayersNext]_vars

\* C28: start-up goes on to the creation of the instance exactly when every
\* desired layer name equals the name of some available layer; when a desired
\* layer is missing, main() reports it and aborts before the instance is created.
C28_LayersPresentOrAbort ==
    /\ layerPc = "instance" =>
        \A d \in Range(desiredValidationLayers) : d \in Range(vkAvailableLayers)
    /\ layerPc = "aborted" =>
        \E d \in Range(desiredValidationLayers) : d \notin Range(vkAvailableLayers)

----------------------------------------------------------------------------
(* Properties of the semaphores *)

\* The present requests on the queue that wait for the semaphore of slot s.
QueuedPresentsOf(s) == {k \in 1 .. Len(presentQueue) : presentQueue[k][1] = s}

\* C29: when main() makes the submission of a slot, which signals the
\* render-finished semaphore of the slot, the present request that waited on
\* that semaphore in the previous use of the slot has consumed its signal: the
\* semaphore is unsignaled and no request waiting for it is on the present queue.
C29_RenderFinishedConsumed ==
    pc = "submit" =>
        /\ renderFinishedSemaphores[SignalSemaphoreOf(currentFrame)] = "unsignaled"
        /\ QueuedPresentsOf(currentFrame) = {}

\* The submissions that wait on the image-available semaphore of slot s and
\* that the GPU has not retired.
WaitersOf(s) == {p \in Slots \X Images : WaitSemaphoreOf(p[1]) = s /\ inFlight[p] > 0}

\* C30: when main() calls the acquisition with the image-available semaphore of
\* slot currentFrame, the semaphore has no pending signal and no pending wait:
\* it is unsignaled, no acquisition has a signal of it outstanding and the
\* submission that waited on it in the previous use of the slot is retired; and
\* every signal is consumed by one submission: the colour output of at most one
\* submission can start on a signal, and an acquisition never replaces a signal
\* that no submission has consumed.
C30_ImageAvailableFreeAtAcquire ==
    /\ [](pc = "acquire" =>
            /\ imageAvailableSemaphores[currentFrame] = Unsignaled
            /\ WaitersOf(currentFrame) = {})
    /\ [](\A s \in Slots :
            imageAvailableSemaphores[s].state = "signaled" =>
                Cardinality(WaitersOf(s) \ rendering) <= 1)
    /\ [][\A s \in Slots :
            imageAvailableSemaphores'[s].state = "pending" =>
                \/ imageAvailableSemaphores[s] = imageAvailableSemaphores'[s]
                \/ imageAvailableSemaphores[s] = Unsignaled]_vars

\* main() is at the acquisition in a slot it has used before: the submission
\* of the previous use waited on the semaphore and is retired.
C30_Witness ==
    /\ pc = "acquire"
    /\ imagesInFlight[0] = currentFrame
    /\ fenceSignaled[currentFrame]
    /\ imageAvailableSemaphores[currentFrame] = Unsignaled
    /\ \E k \in 1 .. Len(presentQueue) : presentQueue[k][1] = currentFrame

============================================================================
